---- MODULE Spec2Model ----
(***************************************************************************)
(* Model of the metalyard GPU-pool coordinator: the agent registry kept in *)
(* SQLite (src/server/db.go), its HTTP handlers (src/server/handlers.go),  *)
(* the stale-agent sweeper (Scheduler.Run) and the round-robin router and  *)
(* SSE relay of the server implementation outline.                        *)
(*                                                                         *)
(* Time is the coordinator's clock, time.Now().Unix(), counted in ticks of *)
(* HeartbeatIntervalSec / TicksPerInterval seconds.                        *)
(***************************************************************************)
EXTENDS Integers, Sequences, FiniteSets, TLC

\* ------------------------------------------------------------------------
\* Configuration (flag defaults of the server's main) and model bounds
\* ------------------------------------------------------------------------
HeartbeatIntervalSec == 30
StaleTimeoutSec == 90
CleanupIntervalSec == 30
MaxMissedHeartbeats == 3

TicksPerInterval == 2
MaxSweeps == 2
MaxAgents == 2
MaxModels == 2
MaxReqs == 2
MaxLines == 2
MaxVRAMSteps == 6
MaxBeats == 3

Ticks(sec) == (sec * TicksPerInterval) \div HeartbeatIntervalSec
staleTimeout == Ticks(StaleTimeoutSec)
cleanupInterval == Ticks(CleanupIntervalSec)
heartbeatInterval == Ticks(HeartbeatIntervalSec)
MaxTime == staleTimeout + MaxSweeps * cleanupInterval

AgentIds == 1..MaxAgents
UnknownId == 0
ModelNames == {"m1", "m2"}
Caps == {"zero", "gpu"}
APIKeys == {"", "key"}
Methods == {"POST", "GET"}
ReqIds == 1..MaxReqs
Lines == {"token", "done"}

RECURSIVE SeqsUpTo(_, _)
SeqsUpTo(S, n) ==
    IF n = 0 THEN {<<>>}
    ELSE LET shorter == SeqsUpTo(S, n - 1)
         IN  shorter \cup {Append(s, x) : s \in {t \in shorter : Len(t) = n - 1}, x \in S}

\* ModelInfo.Name of a register request is any string, the empty one included
RequestModelNames == ModelNames \cup {""}
ModelLists == SeqsUpTo(RequestModelNames, MaxModels)

VARIABLES
    now,            \* coordinator clock (time.Now().Unix())
    agents,         \* table agents: agent_id -> row
    agent_models,   \* table agent_models: agent_id -> set of model_name
    sched,          \* the sweeper goroutine Scheduler.Run: [pc, nextTick, cutoff, seen, ctx]
    resp,           \* the last answer of a registry handler (see Response)
    index,          \* Router.index: model -> last used index
    reqs,           \* the completion requests: one handler goroutine each
    probe,          \* the agent's check of its GPU against a model (CanServe)
    request_log,    \* table request_log: the rows written for requests
    admin,          \* the admin listing request: one HandleAdminAgents goroutine
    client          \* the agent process: where its main is, the identity it holds

vars == <<now, agents, agent_models, sched, resp, index, reqs, probe, request_log, admin, client>>
relayVars == <<index, reqs>>

\* ------------------------------------------------------------------------
\* db.go
\* ------------------------------------------------------------------------
Range(s) == {s[i] : i \in 1..Len(s)}

\* bcrypt.GenerateFromPassword: a hash that is never the key itself
HashKey(k) == <<"bcrypt", k>>

\* One row of table agents (columns name and created_at carry no behaviour
\* and are left out).
AgentRow(hash, st, hb, caps, load, upd) ==
    [api_key_hash |-> hash, status |-> st, last_heartbeat |-> hb,
     capabilities |-> caps, current_load |-> load, updated_at |-> upd]

\* (mutation) ON CONFLICT also sets current_load = excluded.current_load
UpsertAgentResetsLoad(tbl, id, hash, caps, t) ==
    [a \in DOMAIN tbl \cup {id} |->
        IF a = id THEN AgentRow(hash, "online", t, caps, 0, t) ELSE tbl[a]]

\* INSERT ... ON CONFLICT(agent_id) DO UPDATE
UpsertAgent(tbl, id, hash, caps, t) ==
    IF id \in DOMAIN tbl
    THEN [tbl EXCEPT ![id] = [@ EXCEPT !.status = "online",
                                       !.last_heartbeat = t,
                                       !.capabilities = caps,
                                       !.updated_at = t]]
    ELSE [a \in DOMAIN tbl \cup {id} |->
            IF a = id THEN AgentRow(hash, "online", t, caps, 0, t) ELSE tbl[a]]

\* The model inserts violate PRIMARY KEY (agent_id, model_name) when a
\* model name occurs twice in the list.
InsertModelsFails(models) == Cardinality(Range(models)) # Len(models)

\* The statements of RegisterAgent that can fail, in their order
StoreFaults == {"none", "begin", "upsert", "delete", "insert", "commit"}

\* the first position of the list whose INSERT violates the primary key,
\* Len + 1 when none does
FirstDuplicate(models) ==
    LET dups == {i \in 1..Len(models) : models[i] \in Range(SubSeq(models, 1, i - 1))}
    IN  IF dups = {} THEN Len(models) + 1
        ELSE CHOOSE i \in dups : \A j \in dups : i <= j

\* What the transaction has written when it ends: the upsert, the DELETE of
\* the agent's model rows, the INSERTs up to the first one that fails.
RegisterAgentTx(tbl, mdl, id, hash, caps, models, t, failAt) ==
    LET upserted == UpsertAgent(tbl, id, hash, caps, t)
        rows(set) == [a \in DOMAIN mdl \cup {id} |-> IF a = id THEN set ELSE mdl[a]]
        old == IF id \in DOMAIN mdl THEN mdl[id] ELSE {}
        inserted == IF failAt = "insert" THEN 0 ELSE FirstDuplicate(models) - 1
    IN  IF failAt \in {"begin", "upsert"}
        THEN [agents |-> tbl, agent_models |-> mdl]
        ELSE IF failAt = "delete"
        THEN [agents |-> upserted, agent_models |-> rows(old)]
        ELSE [agents |-> upserted,
              agent_models |-> rows(Range(SubSeq(models, 1, inserted)))]

\* (mutation) the writes of a failed transaction are kept
RollbackMissing(tbl, mdl, tx) == tx

\* defer tx.Rollback(): the tables are as they were at Begin
Rollback(tbl, mdl, tx) == [agents |-> tbl, agent_models |-> mdl]

\* RegisterAgent: one transaction; any failing statement rolls back all.
RegisterAgent(tbl, mdl, id, hash, caps, models, t, failAt) ==
    LET tx == RegisterAgentTx(tbl, mdl, id, hash, caps, models, t, failAt)
        undone == Rollback(tbl, mdl, tx)
    IN  IF failAt # "none" \/ InsertModelsFails(models)
        THEN [ok |-> FALSE, agents |-> undone.agents, agent_models |-> undone.agent_models]
        ELSE [ok |-> TRUE, agents |-> tx.agents, agent_models |-> tx.agent_models]

\* (mutation) the UPDATE leaves the status column out
UpdateHeartbeatKeepsStatus(tbl, id, caps, t) ==
    IF id \in DOMAIN tbl
    THEN [ok |-> TRUE,
          agents |-> [tbl EXCEPT ![id] = [@ EXCEPT !.last_heartbeat = t,
                                                   !.capabilities = caps,
                                                   !.updated_at = t]]]
    ELSE [ok |-> FALSE, agents |-> tbl]

\* (mutation) the UPDATE writes status = 'offline'
UpdateHeartbeatWritesOffline(tbl, id, caps, t) ==
    IF id \in DOMAIN tbl
    THEN [ok |-> TRUE,
          agents |-> [tbl EXCEPT ![id] = [@ EXCEPT !.last_heartbeat = t,
                                                   !.capabilities = caps,
                                                   !.status = "offline",
                                                   !.updated_at = t]]]
    ELSE [ok |-> FALSE, agents |-> tbl]

\* (mutation) the timestamp written is one taken from the agent, whose
\* clock is behind the coordinator's
UpdateHeartbeatClientTime(tbl, id, caps, t) ==
    IF id \in DOMAIN tbl
    THEN [ok |-> TRUE,
          agents |-> [tbl EXCEPT ![id] = [@ EXCEPT !.last_heartbeat = IF t > 0 THEN t - 1 ELSE t,
                                                   !.capabilities = caps,
                                                   !.status = "online",
                                                   !.updated_at = t]]]
    ELSE [ok |-> FALSE, agents |-> tbl]

\* UpdateHeartbeat: UPDATE agents SET last_heartbeat, capabilities,
\* status = 'online', updated_at WHERE agent_id = ?
UpdateHeartbeat(tbl, id, caps, t) ==
    IF id \in DOMAIN tbl
    THEN [ok |-> TRUE,
          agents |-> [tbl EXCEPT ![id] = [@ EXCEPT !.last_heartbeat = t,
                                                   !.capabilities = caps,
                                                   !.status = "online",
                                                   !.updated_at = t]]]
    ELSE [ok |-> FALSE, agents |-> tbl]

\* (mutation) the cutoff is the current time, the timeout is not subtracted
IsMarkedStaleNoTimeout(row, t, timeout) ==
    row.status = "online" /\ row.last_heartbeat < t

\* MarkStaleAgentsOffline: cutoff := now - timeout;
\* UPDATE agents SET status = 'offline', updated_at = now
\* WHERE status = 'online' AND last_heartbeat < cutoff
IsMarkedStale(row, t, timeout) ==
    row.status = "online" /\ row.last_heartbeat < t - timeout

\* (mutation) the UPDATE also clears the load of the rows it demotes
MarkStaleAgentsOfflineResetsLoad(tbl, t, timeout) ==
    [a \in DOMAIN tbl |->
        IF IsMarkedStale(tbl[a], t, timeout)
        THEN [tbl[a] EXCEPT !.status = "offline", !.updated_at = t, !.current_load = 0]
        ELSE tbl[a]]

MarkStaleAgentsOffline(tbl, t, timeout) ==
    [a \in DOMAIN tbl |->
        IF IsMarkedStale(tbl[a], t, timeout)
        THEN [tbl[a] EXCEPT !.status = "offline", !.updated_at = t]
        ELSE tbl[a]]

\* GetOnlineAgents: SELECT ... WHERE status = 'online' (as a set of ids)
GetOnlineAgents(tbl) == {a \in DOMAIN tbl : tbl[a].status = "online"}

\* (mutation) the COUNT(*) has no WHERE clause
AgentExistsAny(tbl, id) == Cardinality(DOMAIN tbl) > 0

\* AgentExists: SELECT COUNT(*) FROM agents WHERE agent_id = ?
AgentExists(tbl, id) == Cardinality({a \in DOMAIN tbl : a = id}) > 0

\* ------------------------------------------------------------------------
\* handlers.go
\* ------------------------------------------------------------------------
\* What a handler answered: the HTTP status, the error code (or "ok"), the
\* agent id of the call, and (history) the status that agent had before it.
Response(op, status, code, id, prev) ==
    [op |-> op, status |-> status, code |-> code, agent_id |-> id, prev |-> prev]

StatusOf(tbl, id) == IF id \in DOMAIN tbl THEN tbl[id].status ELSE "none"

\* uuid.New(): an identity no row has yet
\* (mutation) the identity of an existing record is handed out again
NewUUIDReused ==
    IF DOMAIN agents = {} THEN Cardinality(DOMAIN agents) + 1
    ELSE CHOOSE a \in DOMAIN agents : TRUE

NewUUID == Cardinality(DOMAIN agents) + 1

\* HandleRegister: POST /v1/agents/register. What the sender of the request
\* does with the answer is stated where the handler is called.
HandleRegister(method, jsonOk, apiKey, caps, models, failAt) ==
    /\ NewUUID \in AgentIds
    /\ LET id == NewUUID
           r  == RegisterAgent(agents, agent_models, id, HashKey(apiKey), caps, models, now, failAt)
           valid == method = "POST" /\ jsonOk /\ apiKey # "" /\ Len(models) # 0
           out == IF method # "POST" THEN Response("register", 405, "method_not_allowed", UnknownId, "none")
                  ELSE IF ~jsonOk THEN Response("register", 400, "invalid_json", UnknownId, "none")
                  ELSE IF apiKey = "" THEN Response("register", 400, "missing_api_key", UnknownId, "none")
                  ELSE IF Len(models) = 0 THEN Response("register", 400, "missing_models", UnknownId, "none")
                  ELSE IF ~r.ok THEN Response("register", 500, "internal_error", UnknownId, "none")
                  ELSE Response("register", 201, "ok", id, "none")
       IN  /\ resp' = out
           /\ agents' = IF valid THEN r.agents ELSE agents
           /\ agent_models' = IF valid THEN r.agent_models ELSE agent_models
    /\ UNCHANGED <<now, sched, relayVars, probe, request_log, admin>>

\* HandleHeartbeat: POST /v1/agents/{id}/heartbeat. Of the decoded body
\* (Status, CurrentLoad, Capabilities) only the capabilities are used.
\* What the sender does with the answer is stated where the handler is called.
HandleHeartbeat(method, pathOk, id, jsonOk, caps, reported, failAt) ==
    /\ LET u == IF failAt = "update"
                THEN [ok |-> FALSE, agents |-> agents]
                ELSE UpdateHeartbeat(agents, id, caps, now)
           called == method = "POST" /\ pathOk /\ AgentExists(agents, id) /\ jsonOk
           out == IF method # "POST" THEN Response("heartbeat", 405, "method_not_allowed", UnknownId, "none")
                  ELSE IF ~pathOk THEN Response("heartbeat", 400, "invalid_path", UnknownId, "none")
                  ELSE IF ~AgentExists(agents, id) THEN Response("heartbeat", 404, "agent_not_found", id, StatusOf(agents, id))
                  ELSE IF ~jsonOk THEN Response("heartbeat", 400, "invalid_json", id, StatusOf(agents, id))
                  ELSE IF ~u.ok THEN Response("heartbeat", 500, "internal_error", id, StatusOf(agents, id))
                  ELSE Response("heartbeat", 200, "ok", id, StatusOf(agents, id))
       IN  /\ resp' = out
           /\ agents' = IF called THEN u.agents ELSE agents
    /\ UNCHANGED <<now, agent_models, sched, relayVars, probe, request_log, admin>>

\* ------------------------------------------------------------------------
\* handlers.go: the admin listing
\* ------------------------------------------------------------------------
adminAPIKey == "admin"

\* the Authorization header of a request: absent, or a scheme and a key
AuthHeaders ==
    {<<>>} \cup {<<sch, k>> : sch \in {"Bearer", "Basic"}, k \in {"admin", "key", ""}}

\* strings.HasPrefix(authHeader, "Bearer ") / strings.TrimPrefix
HasBearerPrefix(h) == Len(h) = 2 /\ h[1] = "Bearer"
TrimBearerPrefix(h) == h[2]

\* subtle.ConstantTimeCompare
ConstantTimeCompare(x, y) == IF x = y THEN 1 ELSE 0

\* (mutation) any bearer token is let through
AdminAuthorizedAnyBearer(h) == HasBearerPrefix(h)

AdminAuthorized(h) ==
    HasBearerPrefix(h) /\ ConstantTimeCompare(TrimBearerPrefix(h), adminAPIKey) = 1

\* GetAllAgents: SELECT ... FROM agents (all rows, by id)
GetAllAgents(tbl) == tbl

\* GetAgentModels: SELECT ... FROM agent_models WHERE agent_id = ?
GetAgentModels(mdl, id) == IF id \in DOMAIN mdl THEN mdl[id] ELSE {}

\* The admin request: its position, its method and header, the HTTP status answered,
\* the rows GetAllAgents returned, those still to be completed, the
\* AdminAgentInfo entries built, (history) the model rows that were in
\* the table when GetAllAgents ran, the loop's onlineCount (the Online of
\* the response) and the Total of the response.
Admin(pc, method, header, status, rows, todo, out, seen) ==
    [pc |-> pc, method |-> method, header |-> header, status |-> status, rows |-> rows,
     todo |-> todo, out |-> out, seen |-> seen, onlineCount |-> 0, total |-> 0]

NoRows == [a \in {} |-> {}]
NoAdmin == Admin("idle", "GET", <<>>, 0, NoRows, {}, NoRows, NoRows)

\* HandleAdminAgents up to the return of GetAllAgents
HandleAdminAgents(method, header) ==
    /\ admin.pc = "idle"
    /\ admin' = IF method # "GET"
                THEN Admin("rejected", method, header, 405, NoRows, {}, NoRows, NoRows)
                ELSE IF ~AdminAuthorized(header)
                THEN Admin("rejected", method, header, 401, NoRows, {}, NoRows, NoRows)
                ELSE Admin("listing", method, header, 0, GetAllAgents(agents), DOMAIN agents,
                           NoRows, agent_models)
    /\ UNCHANGED <<now, agents, agent_models, sched, resp, relayVars, probe, request_log, client>>

\* onlineCount++ of one round of the loop, made before the models are read
CountOnline(n, row) == IF row.status = "online" THEN n + 1 ELSE n

\* one round of the loop over the agents: GetAgentModels and the entry
AdminGetModels ==
    /\ admin.pc = "listing"
    /\ \E a \in admin.todo :
         admin' = [admin EXCEPT
                      !.todo = @ \ {a},
                      !.onlineCount = CountOnline(@, admin.rows[a]),
                      !.out = [b \in DOMAIN @ \cup {a} |->
                                  IF b = a
                                  THEN [row |-> admin.rows[a],
                                        models |-> GetAgentModels(agent_models, a)]
                                  ELSE @[b]]]
    /\ UNCHANGED <<now, agents, agent_models, sched, resp, relayVars, probe, request_log, client>>

\* one round of the loop in which GetAgentModels fails: the error is
\* logged and the loop continues with the next agent
AdminGetModelsFails ==
    /\ admin.pc = "listing"
    /\ \E a \in admin.todo :
         admin' = [admin EXCEPT
                      !.todo = @ \ {a},
                      !.onlineCount = CountOnline(@, admin.rows[a])]
    /\ UNCHANGED <<now, agents, agent_models, sched, resp, relayVars, probe, request_log, client>>

\* AdminResponse{Agents, Total: len(adminAgents), Online: onlineCount};
\* writeJSON(w, http.StatusOK, resp)
AdminRespond ==
    /\ admin.pc = "listing"
    /\ admin.todo = {}
    /\ admin' = [admin EXCEPT !.pc = "done", !.status = 200,
                              !.total = Cardinality(DOMAIN admin.out)]
    /\ UNCHANGED <<now, agents, agent_models, sched, resp, relayVars, probe, request_log, client>>

\* ------------------------------------------------------------------------
\* Scheduler.Run: the liveness sweeper
\* ------------------------------------------------------------------------
\* cleanupStaleAgents
\* (mutation) the scheduler is built with its two durations exchanged
cleanupStaleAgentsSwapped(tbl, t) == MarkStaleAgentsOffline(tbl, t, cleanupInterval)

cleanupStaleAgents(tbl, t) == MarkStaleAgentsOffline(tbl, t, staleTimeout)

\* Run, first part: ticker created, one cleanup immediately on start
RunStart ==
    /\ sched.pc = "start"
    /\ agents' = cleanupStaleAgents(agents, now)
    /\ sched' = [sched EXCEPT !.pc = "waiting", !.nextTick = now + cleanupInterval]
    /\ UNCHANGED <<now, agent_models, resp, relayVars, probe, request_log, admin, client>>

\* (mutation) ticks are served whether or not Run has returned
RunTickAfterReturn ==
    /\ sched.pc \in {"waiting", "returned"}
    /\ now = sched.nextTick
    /\ agents' = cleanupStaleAgents(agents, now)
    /\ sched' = [sched EXCEPT !.nextTick = now + cleanupInterval]
    /\ UNCHANGED <<now, agent_models, resp, relayVars, probe, request_log, admin, client>>

\* Run, loop: case <-ticker.C
RunTick ==
    /\ sched.pc = "waiting"
    /\ now = sched.nextTick
    /\ agents' = cleanupStaleAgents(agents, now)
    /\ sched' = [sched EXCEPT !.nextTick = now + cleanupInterval]
    /\ UNCHANGED <<now, agent_models, resp, relayVars, probe, request_log, admin, client>>

\* Run, loop: case <-ctx.Done(): return. When a tick is due as well, select
\* takes either case.
RunReturn ==
    /\ sched.pc = "waiting"
    /\ sched.ctx = "done"
    /\ sched' = [sched EXCEPT !.pc = "returned"]
    /\ UNCHANGED <<now, agents, agent_models, resp, relayVars, probe, request_log, admin, client>>

\* main, on SIGINT/SIGTERM: cancel() stops the scheduler
Shutdown ==
    /\ sched.ctx = "live"
    /\ sched' = [sched EXCEPT !.ctx = "done"]
    /\ UNCHANGED <<now, agents, agent_models, resp, relayVars, probe, request_log, admin, client>>

\* cleanupStaleAgents in its two steps. MarkStaleAgentsOffline first takes
\* cutoff := time.Now().Add(-timeout) in the scheduler's goroutine ...
Cutoff(t, timeout) == t - timeout

\* (mutation) the rows to demote are those that were stale when the cutoff
\* was taken, whatever they hold when the UPDATE runs
UpdateStaleAsSeen(tbl, cutoff, t) ==
    [a \in DOMAIN tbl |->
        IF a \in DOMAIN sched.seen /\ sched.seen[a].status = "online"
                                   /\ sched.seen[a].last_heartbeat < cutoff
        THEN [tbl[a] EXCEPT !.status = "offline", !.updated_at = t]
        ELSE tbl[a]]

\* ... and then the store runs UPDATE agents SET status = 'offline',
\* updated_at = ? WHERE status = 'online' AND last_heartbeat < cutoff on
\* the rows as they are committed at that moment.
UpdateStale(tbl, cutoff, t) ==
    [a \in DOMAIN tbl |->
        IF tbl[a].status = "online" /\ tbl[a].last_heartbeat < cutoff
        THEN [tbl[a] EXCEPT !.status = "offline", !.updated_at = t]
        ELSE tbl[a]]

\* the sweep starts (on start, or on a tick that is due): the cutoff is
\* taken; seen is (history) the table at this moment
SweepBegin ==
    /\ \/ sched.pc = "start"
       \/ sched.pc = "waiting" /\ now >= sched.nextTick
    /\ sched' = [sched EXCEPT
                     !.pc = "sweeping",
                     !.nextTick = IF sched.pc = "start" THEN now + cleanupInterval
                                  ELSE sched.nextTick + cleanupInterval,
                     !.cutoff = Cutoff(now, staleTimeout),
                     !.seen = agents]
    /\ UNCHANGED <<now, agents, agent_models, resp, relayVars, probe, request_log, admin, client>>

\* the UPDATE of the sweep is applied
SweepApply ==
    /\ sched.pc = "sweeping"
    /\ agents' = UpdateStale(agents, sched.cutoff, now)
    /\ sched' = [sched EXCEPT !.pc = "waiting"]
    /\ UNCHANGED <<now, agent_models, resp, relayVars, probe, request_log, admin, client>>

\* time passes while the UPDATE waits for the store
ClockTickDuringSweep ==
    /\ now < MaxTime
    /\ sched.pc = "sweeping"
    /\ now' = now + 1
    /\ UNCHANGED <<agents, agent_models, sched, resp, relayVars, probe, request_log, admin, client>>

\* The clock advances; a due ticker tick is served before time moves on.
ClockTick ==
    /\ now < MaxTime
    /\ \/ sched.pc = "waiting" /\ now < sched.nextTick
       \/ sched.pc = "returned"
    /\ now' = now + 1
    /\ UNCHANGED <<agents, agent_models, sched, resp, relayVars, probe, request_log, admin, client>>


\* ------------------------------------------------------------------------
\* Server implementation outline: prepared statements, router, relay
\* ------------------------------------------------------------------------
\* stmtGetHealthyAgents: status = 'online' AND last_poll > ? AND the agent
\* has a row for the model, the parameter being now - AgentTimeout.
GetHealthyAgentsForModel(tbl, mdl, model, t) ==
    {a \in DOMAIN tbl : /\ tbl[a].status = "online"
                        /\ tbl[a].last_heartbeat > t - staleTimeout
                        /\ model \in mdl[a]}

\* ... ORDER BY current_load ASC: every listing of the set in which the
\* loads never decrease (rows of equal load come in an unspecified order).
RECURSIVE Perms(_)
Perms(S) ==
    IF S = {} THEN {<<>>}
    ELSE UNION {{<<x>> \o p : p \in Perms(S \ {x})} : x \in S}

OrderedByLoad(tbl, S) ==
    {p \in Perms(S) : \A i \in 1..(Len(p) - 1) :
                         tbl[p[i]].current_load <= tbl[p[i + 1]].current_load}

\* (mutation) the deferred decrement is missing
DecrementLoadMissing(tbl, id) == tbl

\* stmtIncrementLoad / stmtDecrementLoad
IncrementLoad(tbl, id) ==
    [a \in DOMAIN tbl |->
        IF a = id THEN [tbl[a] EXCEPT !.current_load = @ + 1] ELSE tbl[a]]

DecrementLoad(tbl, id) ==
    [a \in DOMAIN tbl |->
        IF a = id THEN [tbl[a] EXCEPT !.current_load = @ - 1] ELSE tbl[a]]

\* writeSSEError: one "event: error" with the given code
writeSSEError(sink, code) == Append(sink, code)

\* One completion request: where its handler is, and (history) the locals
\* of its SelectAgent call, the agents listed and the index value read,
\* and the lines its scanner has read from the agent.
Request(pc, model, agent, cancelled, sink, result) ==
    [pc |-> pc, model |-> model, agent |-> agent, cancelled |-> cancelled,
     sink |-> sink, result |-> result, listed |-> {}, idx |-> 0, recv |-> <<>>]

NoRequest == Request("idle", "", UnknownId, FALSE, <<>>, "none")

\* Router.SelectAgent: agents[idx % len(agents)], index[model] = idx + 1
SelectAgent(list, idx) == list[(idx % Len(list)) + 1]

\* completionsHandler up to the call of relay.Stream
completionsHandler(r, authOk, model, promptOk) ==
    /\ reqs[r].pc = "idle"
    /\ \E list \in OrderedByLoad(agents,
                      GetHealthyAgentsForModel(agents, agent_models, model, now)) :
         IF ~authOk
         THEN /\ reqs' = [reqs EXCEPT ![r] = Request("rejected", model, UnknownId, FALSE, <<>>, "unauthorized")]
              /\ UNCHANGED index
         ELSE IF model = "" \/ ~promptOk
         THEN /\ reqs' = [reqs EXCEPT ![r] = Request("rejected", model, UnknownId, FALSE, <<>>, "bad_request")]
              /\ UNCHANGED index
         ELSE IF Len(list) = 0
         THEN /\ reqs' = [reqs EXCEPT ![r] = Request("rejected", model, UnknownId, FALSE, <<>>, "no_agents")]
              /\ UNCHANGED index
         ELSE /\ reqs' = [reqs EXCEPT ![r] =
                    [Request("selected", model, SelectAgent(list, index[model]), FALSE, <<>>, "none")
                        EXCEPT !.listed = Range(list), !.idx = index[model]]]
              /\ index' = [index EXCEPT ![model] = @ + 1]
    /\ UNCHANGED <<now, agents, agent_models, sched, resp, probe, request_log, admin, client>>

\* Relay.Stream, entry: registry.IncrementLoad; defer registry.DecrementLoad
StreamBegin(r) ==
    /\ reqs[r].pc = "selected"
    /\ agents' = IncrementLoad(agents, reqs[r].agent)
    /\ reqs' = [reqs EXCEPT ![r].pc = "connecting"]
    /\ UNCHANGED <<now, agent_models, sched, resp, probe, request_log, admin, client, index>>

\* Stream returns: the deferred DecrementLoad runs
StreamReturn(r, sink, result) ==
    /\ agents' = DecrementLoad(agents, reqs[r].agent)
    /\ reqs' = [reqs EXCEPT ![r].pc = "done", ![r].sink = sink, ![r].result = result]
    /\ UNCHANGED <<now, agent_models, sched, resp, probe, request_log, admin, client, index>>

\* (mutation) after a failed call the request is sent once more
DoErrorRetries(r) ==
    /\ reqs[r].pc = "connecting"
    /\ agents' = DecrementLoad(agents, reqs[r].agent)
    /\ reqs' = [reqs EXCEPT ![r].pc = "selected"]
    /\ UNCHANGED <<now, agent_models, sched, resp, probe, request_log, admin, client, index>>

\* r.client.Do fails: agent unreachable, header timeout, context cancelled
DoError(r) ==
    /\ reqs[r].pc = "connecting"
    /\ StreamReturn(r, writeSSEError(reqs[r].sink, "agent_unreachable"), "error")

\* r.client.Do fails because ResponseHeaderTimeout fired: same branch
DoTimeout(r) ==
    /\ reqs[r].pc = "connecting"
    /\ StreamReturn(r, writeSSEError(reqs[r].sink, "agent_unreachable"), "timeout")

\* resp.StatusCode != 200
DoNon200(r) ==
    /\ reqs[r].pc = "connecting"
    /\ StreamReturn(r, writeSSEError(reqs[r].sink, "agent_error"), "error")

\* the agent answered 200: the scanner loop starts
DoOK(r) ==
    /\ reqs[r].pc = "connecting"
    /\ reqs' = [reqs EXCEPT ![r].pc = "streaming"]
    /\ UNCHANGED <<now, agents, agent_models, sched, resp, probe, request_log, admin, client, index>>

\* (mutation) ctx.Done() is polled before the line is written
ScanLineDropsOnCancel(r, line) ==
    /\ reqs[r].pc = "streaming"
    /\ Len(reqs[r].sink) < MaxLines
    /\ IF reqs[r].cancelled
       THEN /\ agents' = DecrementLoad(agents, reqs[r].agent)
            /\ reqs' = [reqs EXCEPT ![r].pc = "done",
                                    ![r].recv = Append(@, line),
                                    ![r].result = "ctx_err"]
            /\ UNCHANGED <<now, agent_models, sched, resp, probe, request_log, admin, client, index>>
       ELSE /\ reqs' = [reqs EXCEPT ![r].recv = Append(@, line),
                                    ![r].sink = Append(@, line)]
            /\ UNCHANGED <<now, agents, agent_models, sched, resp, probe, request_log, admin, client, index>>

\* scanner.Scan() yields a line: it is written through, then ctx.Done()
\* is polled and, when cancelled, Stream returns ctx.Err() (the deferred
\* DecrementLoad runs)
ScanLine(r, line) ==
    /\ reqs[r].pc = "streaming"
    /\ Len(reqs[r].sink) < MaxLines
    /\ IF reqs[r].cancelled
       THEN /\ agents' = DecrementLoad(agents, reqs[r].agent)
            /\ reqs' = [reqs EXCEPT ![r].pc = "done",
                                    ![r].recv = Append(@, line),
                                    ![r].sink = Append(@, line),
                                    ![r].result = "ctx_err"]
            /\ UNCHANGED <<now, agent_models, sched, resp, probe, request_log, admin, client, index>>
       ELSE /\ reqs' = [reqs EXCEPT ![r].recv = Append(@, line),
                                    ![r].sink = Append(@, line)]
            /\ UNCHANGED <<now, agents, agent_models, sched, resp, probe, request_log, admin, client, index>>

\* scanner.Scan() is false and scanner.Err() is nil: the body ended
ScanEOF(r) ==
    /\ reqs[r].pc = "streaming"
    /\ StreamReturn(r, reqs[r].sink, "nil")

\* scanner.Err() is set: reset, timeout, or read aborted by the context
ScanError(r) ==
    /\ reqs[r].pc = "streaming"
    /\ StreamReturn(r, writeSSEError(reqs[r].sink, "stream_error"), "error")

\* scanner.Err() is set because the client's overall Timeout expired
\* while the body was read: same branch
ScanTimeout(r) ==
    /\ reqs[r].pc = "streaming"
    /\ StreamReturn(r, writeSSEError(reqs[r].sink, "stream_error"), "timeout")

\* the caller goes away: r.Context() is cancelled
Cancel(r) ==
    /\ reqs[r].pc \in {"selected", "connecting", "streaming"}
    /\ ~reqs[r].cancelled
    /\ reqs' = [reqs EXCEPT ![r].cancelled = TRUE]
    /\ UNCHANGED <<now, agents, agent_models, sched, resp, probe, request_log, admin, client, index>>

\* ------------------------------------------------------------------------
\* agent/gpu.go
\* ------------------------------------------------------------------------
HeadroomMB == 512
MinComputeCap == 70

\* amounts of VRAM in MB, in steps of half the headroom
VRAMs == {(k * HeadroomMB) \div 2 : k \in 0..MaxVRAMSteps}
ComputeCaps == {"", "6.1", "7.0", "8.9", "10.0"}

GPUInfo(type, vram, cc) == [Type |-> type, VRAM_MB |-> vram, ComputeCap |-> cc]

\* what DetectGPUs produces: the CPU fallback, Apple unified memory, or an
\* NVIDIA card with its VRAM and, when reported, its compute capability
DetectGPUs ==
    {GPUInfo("cpu", 0, ""), GPUInfo("apple", 0, "apple3")}
    \cup {GPUInfo("nvidia", v, cc) : v \in VRAMs, cc \in ComputeCaps}

\* strconv.ParseFloat of a compute capability, in tenths; 0 on an error
ParseFloat(str) ==
    CASE str = "6.1" -> 61
      [] str = "7.0" -> 70
      [] str = "8.9" -> 89
      [] str = "10.0" -> 100
      [] OTHER -> 0

\* (mutation) the headroom comparison rejects equality as well
CanServeStrict(g, modelVRAM_MB) ==
    IF g.Type = "cpu" THEN TRUE
    ELSE IF g.Type = "apple" THEN TRUE
    ELSE IF g.VRAM_MB <= modelVRAM_MB + HeadroomMB THEN FALSE
    ELSE IF g.Type = "nvidia" /\ g.ComputeCap # "" /\ ParseFloat(g.ComputeCap) < MinComputeCap THEN FALSE
    ELSE TRUE

\* GPUInfo.CanServe
CanServe(g, modelVRAM_MB) ==
    IF g.Type = "cpu" THEN TRUE
    ELSE IF g.Type = "apple" THEN TRUE
    ELSE IF g.VRAM_MB < modelVRAM_MB + HeadroomMB THEN FALSE
    ELSE IF g.Type = "nvidia" /\ g.ComputeCap # "" /\ ParseFloat(g.ComputeCap) < MinComputeCap THEN FALSE
    ELSE TRUE

\* The bytes of a compute capability string, which Go's < on strings
\* compares one by one
Bytes(str) ==
    CASE str = "" -> <<>>
      [] str = "6.1" -> <<54, 46, 49>>
      [] str = "7.0" -> <<55, 46, 48>>
      [] str = "8.9" -> <<56, 46, 57>>
      [] str = "10.0" -> <<49, 48, 46, 48>>
      [] str = "apple3" -> <<97, 112, 112, 108, 101, 51>>

\* x < y on byte strings: the first differing byte decides, a proper
\* prefix is smaller
RECURSIVE BytesLess(_, _)
BytesLess(x, y) ==
    IF y = <<>> THEN FALSE
    ELSE IF x = <<>> THEN TRUE
    ELSE IF Head(x) # Head(y) THEN Head(x) < Head(y)
    ELSE BytesLess(Tail(x), Tail(y))

StringLess(x, y) == BytesLess(Bytes(x), Bytes(y))

\* GPUInfo.CanServe of package shared
SharedCanServe(g, modelVRAM_MB) ==
    IF g.Type = "cpu" THEN TRUE
    ELSE IF g.VRAM_MB < modelVRAM_MB + HeadroomMB THEN FALSE
    ELSE IF g.Type = "nvidia" /\ StringLess(g.ComputeCap, "7.0") THEN FALSE
    ELSE TRUE

\* a GPU, a requirement, whether the agent's CanServe has been called, and
\* its result; the same for the CanServe of package shared
Probe(g, modelVRAM_MB, called, result) ==
    [gpu |-> g, modelVRAM_MB |-> modelVRAM_MB, called |-> called, result |-> result,
     sharedCalled |-> FALSE, sharedResult |-> FALSE]

NoProbe == Probe(GPUInfo("cpu", 0, ""), 0, FALSE, FALSE)

\* the agent asks whether its GPU can serve a model
CanServeCall ==
    /\ ~probe.called
    /\ probe' = [probe EXCEPT !.called = TRUE,
                              !.result = CanServe(probe.gpu, probe.modelVRAM_MB)]
    /\ UNCHANGED <<now, agents, agent_models, sched, resp, index, reqs, request_log, admin, client>>

\* the same question put to the CanServe of package shared
SharedCanServeCall ==
    /\ ~probe.sharedCalled
    /\ probe' = [probe EXCEPT !.sharedCalled = TRUE,
                              !.sharedResult = SharedCanServe(probe.gpu, probe.modelVRAM_MB)]
    /\ UNCHANGED <<now, agents, agent_models, sched, resp, index, reqs, request_log, admin, client>>

\* ------------------------------------------------------------------------
\* agent: HeartbeatClient.Register and the start of main
\* ------------------------------------------------------------------------
RegisterPaths == {"/api/v1/agents/register", "/v1/agents/register"}

\* what precedes {id}/heartbeat in the path of a heartbeat
HeartbeatPaths == {"/api/v1/agents/", "/v1/agents/"}

\* the server's mux: the handler a path is routed to
Route(path) ==
    IF path = "/v1/agents/register" THEN "HandleRegister"
    ELSE IF path = "/v1/agents/" THEN "HandleHeartbeat"
    ELSE "NotFound"

\* The registration bodies, as the server decodes them into RegisterRequest
\* (api_key, models): RegistrationRequest{GPU} of the agent has neither
\* field, and a body of the shape of RegisterRequest has both.
RegistrationRequest == [api_key |-> "", models |-> <<>>]
RegisterRequest == [api_key |-> "key", models |-> <<"m1">>]
RegisterBodies == {RegistrationRequest, RegisterRequest}

\* The agent process: where main is, the identity it heartbeats under,
\* the HTTP status of the answer to Register and the agent_id in its body,
\* the error code of the answer to its last heartbeat and (history) the
\* number of heartbeats it has sent.
Client(pc, agentID, status, assigned) ==
    [pc |-> pc, agentID |-> agentID, status |-> status, assigned |-> assigned,
     hb |-> "none", beats |-> 0]

NoClient == Client("start", UnknownId, 0, UnknownId)

\* HeartbeatClient.Register, from the answer on, and main's use of it:
\* any status other than 200 is an error and main ends with log.Fatalf;
\* otherwise the decoded agent_id is the identity of the heartbeat loop.
ClientRegister(status, id) ==
    IF status # 200
    THEN Client("fatal", UnknownId, status, id)
    ELSE Client("heartbeating", id, status, id)

\* main of the agent: hbClient.Register(gpu), the request served by the
\* coordinator and the answer taken by the agent.
AgentRegister(path, body) ==
    /\ client.pc = "start"
    /\ IF Route(path) = "HandleRegister"
       THEN HandleRegister("POST", TRUE, body.api_key, "gpu", body.models, "none")
       ELSE /\ resp' = Response("register", 404, "not_found", UnknownId, "none")
            /\ UNCHANGED <<now, agents, agent_models, sched, relayVars, probe, request_log, admin>>
    /\ client' = ClientRegister(resp'.status, resp'.agent_id)

\* Register answered 200 with a RegistrationResponse naming id, the answer
\* HeartbeatClient.Register takes for success; main goes on to the
\* heartbeat loop under that identity.
AgentRegisterOK(id) ==
    /\ client.pc = "start"
    /\ client' = ClientRegister(200, id)
    /\ UNCHANGED <<now, agents, agent_models, sched, resp, relayVars, probe, request_log, admin>>

\* sendHeartbeat, on start of the loop and on every tick of its ticker:
\* SendHeartbeat posts to {path}{agentID}/heartbeat; on an error (any
\* status other than 200) sendHeartbeat logs and returns, and the loop
\* goes on with the same agentID.
sendHeartbeat(path) ==
    /\ client.pc = "heartbeating"
    /\ client.beats < MaxBeats
    /\ IF Route(path) = "HandleHeartbeat"
       THEN HandleHeartbeat("POST", TRUE, client.agentID, TRUE, "zero", "available", "none")
       ELSE /\ resp' = Response("heartbeat", 404, "not_found", UnknownId, "none")
            /\ UNCHANGED <<now, agents, agent_models, sched, relayVars, probe, request_log, admin>>
    /\ client' = [client EXCEPT !.hb = resp'.code, !.beats = @ + 1]

\* ------------------------------------------------------------------------
InitRegistry ==
    /\ now = 0
    /\ agents = [a \in {} |-> AgentRow(HashKey("key"), "online", 0, "zero", 0, 0)]
    /\ agent_models = [a \in {} |-> {}]
    /\ sched = [pc |-> "start", nextTick |-> 0, cutoff |-> 0, seen |-> NoRows, ctx |-> "live"]
    /\ resp = Response("none", 0, "none", UnknownId, "none")
    /\ index = [m \in ModelNames |-> 0]
    /\ reqs = [r \in ReqIds |-> NoRequest]
    /\ request_log = {}
    /\ admin = NoAdmin
    /\ client = NoClient

Init ==
    /\ InitRegistry
    /\ probe = NoProbe

\* The agent side: a detected GPU and the VRAM requirement of a model
InitGPU ==
    /\ InitRegistry
    /\ \E g \in DetectGPUs, m \in VRAMs : probe = Probe(g, m, FALSE, FALSE)

NextGPU == CanServeCall

SpecGPU == InitGPU /\ [][NextGPU]_vars

\* Both implementations of CanServe asked about one GPU and requirement
NextBoth ==
    \/ CanServeCall
    \/ SharedCanServeCall

SpecBoth == InitGPU /\ [][NextBoth]_vars

\* The calls the agents make. A call that a handler rejects before it reads
\* the rest of the request is represented once.
RegisterCalls ==
    {<<"GET", TRUE, "key", "zero", <<>>, "none">>,
     <<"POST", FALSE, "key", "zero", <<>>, "none">>,
     <<"POST", TRUE, "", "zero", <<>>, "none">>}
    \cup {<<"POST", TRUE, "key", c, ms, "none">> : c \in Caps, ms \in ModelLists}

ReportedStatuses == {"online", "draining"}

\* db.Exec of UpdateHeartbeat fails, or not
HeartbeatFaults == {"none", "update"}

HeartbeatCalls ==
    {<<"GET", TRUE, TRUE, "zero", "online", "none">>,
     <<"POST", FALSE, TRUE, "zero", "online", "none">>,
     <<"POST", TRUE, FALSE, "zero", "online", "none">>}
    \cup {<<"POST", TRUE, TRUE, c, st, "none">> : c \in Caps, st \in ReportedStatuses}

Register ==
    /\ \E c \in RegisterCalls : HandleRegister(c[1], c[2], c[3], c[4], c[5], c[6])
    /\ UNCHANGED client

Heartbeat ==
    /\ \E id \in AgentIds, c \in HeartbeatCalls : HandleHeartbeat(c[1], c[2], id, c[3], c[4], c[5], c[6])
    /\ UNCHANGED client

Next ==
    \/ Register
    \/ Heartbeat
    \/ RunStart
    \/ RunTick
    \/ ClockTick

Spec == Init /\ [][Next]_vars

\* The registry at one instant, its store failing at any statement
RegisterFailing ==
    \E c \in Caps, ms \in ModelLists, f \in StoreFaults \ {"none"} :
        /\ HandleRegister("POST", TRUE, "key", c, ms, f)
        /\ UNCHANGED client

HeartbeatFailing ==
    \E id \in AgentIds, c \in Caps, f \in HeartbeatFaults \ {"none"} :
        /\ HandleHeartbeat("POST", TRUE, id, TRUE, c, "online", f)
        /\ UNCHANGED client

NextStore ==
    \/ Register
    \/ Heartbeat
    \/ RegisterFailing
    \/ HeartbeatFailing
    \/ RunStart

SpecStore == Init /\ [][NextStore]_vars


\* The request path, with the registry driven by well-formed calls only
RegisterValid ==
    /\ HandleRegister("POST", TRUE, "key", "gpu", <<"m1">>, "none")
    /\ UNCHANGED client

HeartbeatValid ==
    /\ \E id \in AgentIds : HandleHeartbeat("POST", TRUE, id, TRUE, "gpu", "online", "none")
    /\ UNCHANGED client

\* The admin listing, read while agents register, heartbeat and are swept
RegisterEither ==
    /\ \E ms \in {<<"m1">>, <<"m2">>} : HandleRegister("POST", TRUE, "key", "gpu", ms, "none")
    /\ UNCHANGED client

AdminListing ==
    \/ \E m \in Methods, h \in AuthHeaders : HandleAdminAgents(m, h)
    \/ AdminGetModels
    \/ AdminRespond

NextAdmin ==
    \/ RegisterEither
    \/ HeartbeatValid
    \/ RunStart
    \/ RunTick
    \/ ClockTick
    \/ AdminListing

SpecAdmin == Init /\ [][NextAdmin]_vars

\* The sweep in its two steps, heartbeats and the clock in between
NextRace ==
    \/ RegisterValid
    \/ HeartbeatValid
    \/ SweepBegin
    \/ SweepApply
    \/ ClockTickDuringSweep
    \/ ClockTick

SpecRace == Init /\ [][NextRace]_vars

\* The admin listing with reads of the model table that can fail
NextListing ==
    \/ RegisterEither
    \/ RunStart
    \/ RunTick
    \/ ClockTick
    \/ AdminListing
    \/ AdminGetModelsFails

SpecListing == Init /\ [][NextListing]_vars

\* The sweeper from its start to its return on shutdown. Run is one
\* goroutine that is always scheduled again, and a select takes a case that
\* stays ready.
NextRun ==
    \/ RegisterValid
    \/ HeartbeatValid
    \/ RunStart
    \/ RunTick
    \/ RunReturn
    \/ Shutdown
    \/ ClockTick

SpecRun == Init /\ [][NextRun]_vars /\ WF_vars(RunStart) /\ WF_vars(RunReturn)

\* The heartbeat loop of an agent whose registration was answered 200
AgentJoins == \E id \in AgentIds : AgentRegisterOK(id)

AgentBeats == \E path \in HeartbeatPaths : sendHeartbeat(path)

NextLoop ==
    \/ AgentJoins
    \/ AgentBeats
    \/ RegisterValid
    \/ RunStart
    \/ RunTick
    \/ ClockTick

SpecLoop == Init /\ [][NextLoop]_vars

\* Heartbeats of every kind, accepted, refused and failing in the store,
\* while time passes and the sweeper runs
NextBeat ==
    \/ RegisterValid
    \/ Heartbeat
    \/ HeartbeatFailing
    \/ RunStart
    \/ RunTick
    \/ ClockTick

SpecBeat == Init /\ [][NextBeat]_vars

\* An agent process starting against the coordinator
AgentStart == \E path \in RegisterPaths, body \in RegisterBodies : AgentRegister(path, body)

NextAgent ==
    \/ AgentStart
    \/ RegisterEither
    \/ HeartbeatValid
    \/ RunStart
    \/ RunTick
    \/ ClockTick

SpecAgent == Init /\ [][NextAgent]_vars

Completions(R) == \E r \in R, a \in BOOLEAN, m \in {"m1", ""}, p \in BOOLEAN :
                     completionsHandler(r, a, m, p)

Relay(R) == \E r \in R :
               \/ StreamBegin(r)
               \/ DoError(r)
               \/ DoTimeout(r)
               \/ DoNon200(r)
               \/ DoOK(r)
               \/ \E l \in Lines : ScanLine(r, l)
               \/ ScanEOF(r)
               \/ ScanError(r)
               \/ ScanTimeout(r)
               \/ Cancel(r)

\* Concurrent completion requests against a registry at one instant
NextRelay ==
    \/ RegisterValid
    \/ HeartbeatValid
    \/ RunStart
    \/ Completions(ReqIds)
    \/ Relay(ReqIds)

SpecRelay == Init /\ [][NextRelay]_vars

\* Every operation of the coordinator, one completion request, time passing
NextAll ==
    \/ RegisterValid
    \/ HeartbeatValid
    \/ RunStart
    \/ RunTick
    \/ ClockTick
    \/ Completions({1})
    \/ Relay({1})

SpecAll == Init /\ [][NextAll]_vars

\* ------------------------------------------------------------------------
\* Properties
\* ------------------------------------------------------------------------
\* maximum concurrency of an agent (Config.MaxConcurrent, default 1)
MaxConcurrent == 1

Rows == DOMAIN agents
Silence(a) == now - agents[a].last_heartbeat

\* the requests whose Stream has incremented the load of a and not returned
InFlight(a) == {r \in ReqIds : reqs[r].pc \in {"connecting", "streaming"} /\ reqs[r].agent = a}

\* C1: each Stream releases its reservation exactly once on every exit
\* path: an agent's load is exactly the number of requests whose Stream
\* is running on it, so a returned Stream leaves the load as it found it.
C1_ReleasedExactlyOnce ==
    \A a \in Rows : agents[a].current_load = Cardinality(InFlight(a))

\* two requests were relayed to one agent; one returned on cancellation
\* while the other still streams
C1_Witness ==
    \E r1, r2 \in ReqIds :
        /\ reqs[r1].pc = "done" /\ reqs[r1].result = "ctx_err"
        /\ reqs[r2].pc = "streaming" /\ reqs[r2].agent = reqs[r1].agent
        /\ agents[reqs[r1].agent].current_load = 1

\* C2 as claimed: an agent is ONLINE if and only if it is fresh,
\* now - last_heartbeat < staleTimeout, in every reachable state.
C2_OnlineIffFresh ==
    \A a \in Rows : (agents[a].status = "online") <=> (Silence(a) < staleTimeout)

\* C2 as amended: no agent is OFFLINE while fresh (every fresh agent is
\* ONLINE); a stale agent may still be ONLINE until the next sweep.
C2_OfflineOnlyIfStale ==
    \A a \in Rows : agents[a].status = "offline" => Silence(a) >= staleTimeout

\* a sweep has demoted one agent while another agent is fresh and ONLINE
C2_Witness ==
    \E a, b \in Rows :
        /\ agents[a].status = "offline" /\ Silence(a) >= staleTimeout
        /\ agents[b].status = "online" /\ Silence(b) < staleTimeout

\* C3: for every agent 0 <= current_load <= maxConcurrent, in every
\* reachable state.
C3_LoadWithinBounds ==
    \A a \in Rows : 0 <= agents[a].current_load /\ agents[a].current_load <= MaxConcurrent

\* C4: of the requests that concurrently target one agent, no more than
\* maxConcurrent hold a reservation on it; the others are refused or
\* reserved on another agent.
C4_NoOverCommit ==
    \A a \in Rows : Cardinality(InFlight(a)) <= MaxConcurrent

\* C5: a streamed request that has ended has written exactly one terminal
\* event (the success marker, an error, or a cancellation marker), and it
\* is the last event of its stream.
ErrorCodes == {"agent_unreachable", "agent_error", "stream_error"}
IsTerminal(e) == e \in ErrorCodes \cup {"done", "cancelled"}

C5_ExactlyOneTerminal ==
    \A r \in ReqIds :
        reqs[r].pc = "done" =>
            /\ Len(reqs[r].sink) >= 1
            /\ IsTerminal(reqs[r].sink[Len(reqs[r].sink)])
            /\ \A i \in 1..(Len(reqs[r].sink) - 1) : ~IsTerminal(reqs[r].sink[i])

\* C6: an agent silent since its last heartbeat at t is in no result of
\* the online query from t + staleTimeout + one sweep interval onwards.
C6_ExcludedAfterDeadline ==
    \A a \in Rows :
        Silence(a) >= staleTimeout + cleanupInterval => a \notin GetOnlineAgents(agents)

\* C7: a successful heartbeat of an OFFLINE agent makes it ONLINE in that
\* very step, and the online query returns it right afterwards.
HeartbeatAccepted(id) ==
    /\ \E c \in HeartbeatCalls : HandleHeartbeat(c[1], c[2], id, c[3], c[4], c[5], c[6])
    /\ resp'.status = 200

C7_OnlineOnHeartbeat ==
    [][\A id \in Rows :
          (agents[id].status = "offline" /\ HeartbeatAccepted(id))
              => (agents'[id].status = "online" /\ id \in GetOnlineAgents(agents'))]_vars

\* the state right after the accepted heartbeat of an agent that was
\* OFFLINE and had been silent for longer than the stale timeout
C7_Witness ==
    /\ resp.op = "heartbeat" /\ resp.status = 200 /\ resp.prev = "offline"
    /\ resp.agent_id \in GetOnlineAgents(agents)
    /\ agents[resp.agent_id].last_heartbeat = now

\* C8: a sweep sets OFFLINE every ONLINE agent whose silence is at least
\* the stale timeout, the agent silent for exactly the timeout included.
Sweep == RunStart \/ RunTick

C8_SweepDemotesStale ==
    [][Sweep => \A a \in Rows :
                   (agents[a].status = "online" /\ Silence(a) >= staleTimeout)
                       => agents'[a].status = "offline"]_vars

\* C9: only a sweep changes an agent from ONLINE to OFFLINE; no other
\* operation of the coordinator writes OFFLINE.
Demoted(a) == agents[a].status = "online" /\ agents'[a].status = "offline"

C9_OnlySweepDemotes ==
    [][(\E a \in Rows : Demoted(a)) => Sweep]_vars

\* an agent is OFFLINE (demoted by a sweep) while a request is relayed
C9_Witness ==
    /\ \E a \in Rows : agents[a].status = "offline"
    /\ \E r \in ReqIds : reqs[r].pc = "streaming"

\* C10: a heartbeat for an identity that has no record is answered
\* agent_not_found (404) and leaves both tables as they were.
C10_UnknownAgentHeartbeat ==
    [][\A id \in AgentIds :
          (id \notin Rows /\ \E j \in BOOLEAN, c \in Caps : HandleHeartbeat("POST", TRUE, id, j, c, "online", "none"))
              => /\ resp'.status = 404 /\ resp'.code = "agent_not_found"
                 /\ agents' = agents
                 /\ agent_models' = agent_models]_vars

\* the state right after such a heartbeat, other agents being registered
C10_Witness ==
    /\ resp.op = "heartbeat" /\ resp.code = "agent_not_found"
    /\ resp.agent_id \notin Rows
    /\ Rows # {}

\* the credential a record was registered with: the key its api_key_hash
\* verifies
Credential(a) == agents[a].api_key_hash[2]

\* a capability set that is empty, names a model "", or lists a model twice
Malformed(models) ==
    \/ Len(models) = 0
    \/ "" \in Range(models)
    \/ Cardinality(Range(models)) # Len(models)

\* C11: a register call whose capability set is empty or malformed is
\* answered with an error and leaves both tables as they were.
C11_MalformedRejected ==
    [][\A c \in RegisterCalls :
          (c[1] = "POST" /\ c[2] /\ c[3] # "" /\ Malformed(c[5])
              /\ HandleRegister(c[1], c[2], c[3], c[4], c[5], c[6]))
              => /\ resp'.status >= 400
                 /\ agents' = agents
                 /\ agent_models' = agent_models]_vars

\* C12: a successful registration by a credential that already has a
\* record adds no record; the existing record gets exactly the new model
\* set, status ONLINE and last_heartbeat = now.
C12_IdempotentUpsert ==
    [][\A c \in RegisterCalls :
          (HandleRegister(c[1], c[2], c[3], c[4], c[5], c[6]) /\ resp'.status = 201
              /\ \E a \in Rows : Credential(a) = c[3])
              => /\ DOMAIN agents' = DOMAIN agents
                 /\ \A a \in Rows : Credential(a) = c[3] =>
                       /\ agent_models'[a] = Range(c[5])
                       /\ agents'[a].status = "online"
                       /\ agents'[a].last_heartbeat = now]_vars

\* C13: the registry holds exactly one record per agent, whatever the
\* sequence of registrations: no two records belong to one credential.
C13_OneRecordPerAgent ==
    \A a, b \in Rows : Credential(a) = Credential(b) => a = b

\* C14: an increment of the load of an agent that is already at
\* maxConcurrent fails and leaves the agents table unchanged.
C14_IncrementRefusedAtCapacity ==
    [][\A r \in ReqIds :
          (StreamBegin(r) /\ agents[reqs[r].agent].current_load >= MaxConcurrent)
              => agents' = agents]_vars

\* C15: for every model, the query for agents to route to returns exactly
\* the agents that are ONLINE and serve the model; this is asked of the
\* query of db.go and of the query of the router.
OnlineServing(m) == {a \in Rows : agents[a].status = "online" /\ m \in agent_models[a]}

C15_QueryExactlyOnlineServing ==
    \A m \in ModelNames :
        /\ GetOnlineAgents(agents) = OnlineServing(m)
        /\ GetHealthyAgentsForModel(agents, agent_models, m, now) = OnlineServing(m)

Discrete(g) == g.Type \notin {"cpu", "apple"}
ComputeOK(g) == ~(g.Type = "nvidia" /\ g.ComputeCap # "" /\ ParseFloat(g.ComputeCap) < MinComputeCap)

Selects(r) == reqs[r].pc = "idle" /\ reqs'[r].pc = "selected"
NoAgentSelected(r) ==
    reqs[r].pc = "idle" /\ reqs'[r].pc = "rejected" /\ reqs'[r].result = "no_agents"

Serving(m) == {a \in Rows : m \in agent_models[a]}

\* C17: the transient answer "no agents available" is given only when some
\* registered agent, online or offline, serves the model; when none does,
\* the answer is the permanent one.
C17_NoAvailableOnlyIfCapableExists ==
    [][\A r \in ReqIds : NoAgentSelected(r) => Serving(reqs'[r].model) # {}]_vars

\* C18: the agent selected has the lowest load of the candidates: an
\* agent of higher load is not chosen while one of lower load is there.
C18_LowestLoadFirst ==
    [][\A r \in ReqIds :
          Selects(r) =>
              \A b \in GetHealthyAgentsForModel(agents, agent_models, reqs'[r].model, now) :
                  agents[reqs'[r].agent].current_load <= agents[b].current_load]_vars

\* C19: of the Select calls for one model that saw the same set of n
\* agents, any two that are fewer than n calls apart chose different
\* agents (n consecutive calls choose each agent once).
Routed(r) == reqs[r].pc \in {"selected", "connecting", "streaming", "done"}

C19_RotationCoversAll ==
    \A r1, r2 \in ReqIds :
        (/\ r1 # r2 /\ Routed(r1) /\ Routed(r2)
         /\ reqs[r1].model = reqs[r2].model
         /\ reqs[r1].listed = reqs[r2].listed
         /\ reqs[r1].idx < reqs[r2].idx
         /\ reqs[r2].idx - reqs[r1].idx < Cardinality(reqs[r1].listed))
            => reqs[r1].agent # reqs[r2].agent

SuccessCount(a) == Cardinality({row \in request_log : row.agent_id = a /\ row.status = "completed"})
FailureCount(a) == Cardinality({row \in request_log : row.agent_id = a /\ row.status = "failed"})

Ended(a, results) ==
    {r \in ReqIds : reqs[r].pc = "done" /\ reqs[r].agent = a /\ reqs[r].result \in results}

\* C21: every ended request has counted once for its agent: the success
\* count is the number of its cleanly completed requests, the failure
\* count the number of its failed ones; cancelled ones count for neither.
C21_CountersFollowOutcome ==
    \A a \in Rows :
        /\ SuccessCount(a) = Cardinality(Ended(a, {"nil"}))
        /\ FailureCount(a) = Cardinality(Ended(a, {"error", "timeout"}))

\* C22: a request whose caller cancelled while it was in flight ends with
\* the cancellation marker as its last event and with no error event.
C22_CancelledMarker ==
    \A r \in ReqIds :
        (reqs[r].pc = "done" /\ reqs[r].cancelled) =>
            /\ Len(reqs[r].sink) >= 1
            /\ reqs[r].sink[Len(reqs[r].sink)] = "cancelled"
            /\ \A i \in 1..Len(reqs[r].sink) : reqs[r].sink[i] \notin ErrorCodes

\* C23: a request that ran into the header timeout or the overall timeout
\* ends with an error event of its own: the code of its terminal event is
\* not the code that ends a request failing for another reason.
Last(q) == q[Len(q)]

C23_TimeoutHasOwnCode ==
    \A r1, r2 \in ReqIds :
        (/\ reqs[r1].pc = "done" /\ reqs[r1].result = "timeout"
         /\ reqs[r2].pc = "done" /\ reqs[r2].result = "error")
            => Last(reqs[r1].sink) # Last(reqs[r2].sink)

\* C24: a request is given an agent at most once and is sent to it at most
\* once: its agent never changes, it is selected only from idle, its call
\* is started only from the selection, and an ended request stays as it is.
C24_OneAgentOneCall ==
    [][\A r \in ReqIds :
          /\ reqs[r].agent # UnknownId => reqs'[r].agent = reqs[r].agent
          /\ (reqs'[r].pc = "selected" /\ reqs[r].pc # "selected") => reqs[r].pc = "idle"
          /\ (reqs'[r].pc = "connecting" /\ reqs[r].pc # "connecting") => reqs[r].pc = "selected"
          /\ reqs[r].pc \in {"done", "rejected"} => reqs'[r] = reqs[r]]_vars

\* a request has failed on its agent while another agent that serves the
\* model is ONLINE and idle: it was not sent there
C24_Witness ==
    \E r \in ReqIds, b \in Rows :
        /\ reqs[r].pc = "done" /\ reqs[r].result \in {"error", "timeout"}
        /\ b # reqs[r].agent
        /\ b \in GetHealthyAgentsForModel(agents, agent_models, reqs[r].model, now)
        /\ agents[b].current_load = 0

\* C25: after an accepted heartbeat that reports the status draining, the
\* agent is in no result of the online query (while its status is still
\* one of online and offline).
C25_DrainingExcluded ==
    [][\A id \in Rows :
          ((\E c \in HeartbeatCalls :
                c[5] = "draining" /\ HandleHeartbeat(c[1], c[2], id, c[3], c[4], c[5], c[6]))
           /\ resp'.status = 200)
              => /\ id \notin GetOnlineAgents(agents')
                 /\ agents'[id].status \in {"online", "offline"}]_vars

C27_NoPartialRecord ==
    /\ \A a \in Rows : a \in DOMAIN agent_models /\ agent_models[a] # {}
    /\ \A a \in DOMAIN admin.out :
          /\ admin.out[a].models = admin.seen[a]
          /\ admin.out[a].models # {}
          /\ admin.out[a].row = admin.rows[a]

\* a listing was completed while an agent registered and another was
\* swept offline between the two queries
C27_Witness ==
    /\ admin.pc = "done"
    /\ DOMAIN admin.out # DOMAIN agents
    /\ \E a \in DOMAIN admin.out : admin.out[a].row.status # agents[a].status

\* C28: the admin listing is read-only and has its own credential: no step
\* of an admin request changes an agent row or a model row, and a request
\* whose header is not exactly the bearer admin key is answered 401 (405
\* when it is not a GET) and carries no agent data.
C28_AdminReadOnlyAndGated ==
    [][admin' # admin =>
          /\ agents' = agents
          /\ agent_models' = agent_models
          /\ admin'.header # <<"Bearer", adminAPIKey>> =>
                /\ admin'.pc = "rejected"
                /\ admin'.status = IF admin'.method = "GET" THEN 401 ELSE 405
                /\ admin'.rows = NoRows
                /\ admin'.out = NoRows]_vars

\* a listing asked with an agent's key while agents are registered was
\* refused with 401
C28_Witness ==
    /\ Rows # {}
    /\ admin.pc = "rejected"
    /\ admin.method = "GET"
    /\ admin.header = <<"Bearer", "key">>
    /\ admin.status = 401

\* C29: an agent is marked OFFLINE only after it has missed
\* MaxMissedHeartbeats heartbeats in a row: whenever a step takes an agent
\* from ONLINE to OFFLINE, the time since its last accepted heartbeat (or
\* registration) is at least heartbeatInterval * MaxMissedHeartbeats; an
\* agent whose silence is below that is left ONLINE by every sweep.
C29_OfflineOnlyAfterMissedHeartbeats ==
    [][\A a \in Rows :
          (agents[a].status = "online" /\ Silence(a) < heartbeatInterval * MaxMissedHeartbeats)
              => agents'[a].status = "online"]_vars

\* a sweep has just run: it demoted one agent and left ONLINE another that
\* had missed two heartbeats but not three
C29_Witness ==
    /\ sched.pc = "waiting" /\ sched.nextTick = now + cleanupInterval
    /\ \E a, b \in Rows :
          /\ agents[a].status = "online"
          /\ Silence(a) >= heartbeatInterval * (MaxMissedHeartbeats - 1)
          /\ Silence(a) < heartbeatInterval * MaxMissedHeartbeats
          /\ agents[b].status = "offline" /\ agents[b].updated_at = now

C31_SweepOnlyRemovesEligibility ==
    [][Sweep =>
          /\ agent_models' = agent_models
          /\ DOMAIN agents' = DOMAIN agents
          /\ \A a \in Rows :
                /\ agents'[a].status = "online" => agents[a].status = "online"
                /\ agents'[a].last_heartbeat = agents[a].last_heartbeat
                /\ agents'[a].current_load = agents[a].current_load
                /\ agents'[a].capabilities = agents[a].capabilities
                /\ agents'[a].api_key_hash = agents[a].api_key_hash
                /\ agents'[a] # agents[a] =>
                      /\ agents[a].status = "online"
                      /\ Silence(a) >= staleTimeout
                      /\ agents'[a].status = "offline"]_vars

\* a sweep has just demoted an agent that holds the reservation of a request
\* in flight
C31_Witness ==
    /\ sched.pc = "waiting" /\ sched.nextTick = now + cleanupInterval
    /\ \E a \in Rows :
          /\ agents[a].status = "offline" /\ agents[a].updated_at = now
          /\ agents[a].current_load = 1
          /\ InFlight(a) # {}

\* C32: last_heartbeat is written only by an accepted heartbeat or a
\* registration, and always as the coordinator's clock: a step that changes
\* an agent's last_heartbeat is that agent's heartbeat answered 200, a new
\* row starts with last_heartbeat = now, an accepted heartbeat leaves
\* last_heartbeat = now, and a heartbeat answered with an error (wrong
\* method or path, unknown agent, unparsable body, store error) changes no
\* agent row.
C32_HeartbeatTimeFromCoordinator ==
    [][/\ \A a \in Rows :
             agents'[a].last_heartbeat # agents[a].last_heartbeat =>
                 /\ resp'.op = "heartbeat" /\ resp'.status = 200 /\ resp'.agent_id = a
                 /\ agents'[a].last_heartbeat = now
       /\ \A a \in DOMAIN agents' \ Rows : agents'[a].last_heartbeat = now
       /\ \A id \in AgentIds :
             (\E c \in HeartbeatCalls, f \in HeartbeatFaults :
                  HandleHeartbeat(c[1], c[2], id, c[3], c[4], c[5], f)) =>
                 IF resp'.status = 200
                 THEN agents'[id].last_heartbeat = now
                 ELSE agents' = agents]_vars

\* a heartbeat of an OFFLINE agent has just failed in the store: the agent
\* is still OFFLINE with its old timestamp
C32_Witness ==
    /\ resp.op = "heartbeat" /\ resp.status = 500
    /\ resp.agent_id \in Rows
    /\ agents[resp.agent_id].status = "offline"
    /\ agents[resp.agent_id].last_heartbeat < now

\* C33: current_load changes only by the increment and the decrement of a
\* relayed request: a step that changes an agent's load is the entry of a
\* Stream on that agent (+1) or its return (-1); heartbeats and sweeps
\* leave every load as it is, and so does RegisterAgent called for an
\* identity that already has a row.
C33_LoadOnlyByAdjust ==
    [][/\ \A a \in Rows :
             agents'[a].current_load # agents[a].current_load =>
                 \E r \in ReqIds :
                     /\ reqs[r].agent = a
                     /\ \/ /\ reqs[r].pc = "selected" /\ reqs'[r].pc = "connecting"
                           /\ agents'[a].current_load = agents[a].current_load + 1
                        \/ /\ reqs[r].pc \in {"connecting", "streaming"} /\ reqs'[r].pc = "done"
                           /\ agents'[a].current_load = agents[a].current_load - 1
       /\ (HeartbeatValid \/ Sweep) =>
             \A a \in Rows : agents'[a].current_load = agents[a].current_load
       /\ \A a \in Rows, c \in Caps, ms \in {<<"m1">>, <<"m2", "m1">>} :
             RegisterAgent(agents, agent_models, a, HashKey("key"), c, ms, now, "none")
                 .agents[a].current_load = agents[a].current_load]_vars

\* an agent holding the reservation of a request in flight was OFFLINE and
\* has just sent an accepted heartbeat
C33_Witness ==
    /\ resp.op = "heartbeat" /\ resp.status = 200 /\ resp.prev = "offline"
    /\ agents[resp.agent_id].last_heartbeat = now
    /\ agents[resp.agent_id].current_load = 1
    /\ InFlight(resp.agent_id) # {}

\* C34: a heartbeat, whatever its body holds or leaves out, keeps the
\* agent's stored capability descriptor and its model list as the last
\* registration set them.
C34_HeartbeatKeepsCapabilities ==
    [][\A id \in Rows :
          HeartbeatAccepted(id) =>
              /\ agents'[id].capabilities = agents[id].capabilities
              /\ agent_models'[id] = agent_models[id]]_vars

\* C35: whenever the UPDATE of a sweep takes an agent from ONLINE to
\* OFFLINE, the last heartbeat committed for that agent is at least the
\* stale timeout old at that moment; a heartbeat committed after the cutoff
\* was taken and before the UPDATE ran is not overridden.
C35_NoDemotionOfFreshHeartbeat ==
    [][SweepApply =>
          \A a \in Rows :
              Demoted(a) => /\ Silence(a) >= staleTimeout
                            /\ agents[a].last_heartbeat < sched.cutoff]_vars

\* the UPDATE of a sweep has just run: it left ONLINE an agent that was
\* stale when the cutoff was taken and sent a heartbeat since, and demoted
\* another
C35_Witness ==
    /\ sched.pc = "waiting"
    /\ \E a, b \in Rows :
          /\ a \in DOMAIN sched.seen
          /\ sched.seen[a].status = "online" /\ sched.seen[a].last_heartbeat < sched.cutoff
          /\ agents[a].status = "online" /\ agents[a].last_heartbeat > sched.cutoff + staleTimeout
          /\ agents[a].last_heartbeat < now
          /\ agents[b].status = "offline" /\ agents[b].updated_at = now

HeartbeatWithKey(id, k) ==
    \* HandleHeartbeat never reads the Authorization header of the request
    \E c \in HeartbeatCalls : HandleHeartbeat(c[1], c[2], id, c[3], c[4], c[5], c[6])

C37_HeartbeatNeedsAgentKey ==
    [][\A id \in Rows, k \in APIKeys \cup {"other"} :
          (HeartbeatWithKey(id, k) /\ (resp'.status = 200 \/ agents' # agents))
              => Credential(id) = k]_vars

\* C38: Run sweeps once on start and then once per cleanup interval: a
\* sweep is taken on start or at the tick that is due, and sets the next
\* tick one cleanup interval later, and time does not pass a due tick while
\* Run waits. Run returns only when its context is cancelled, and after
\* a cancellation it does return; once it has returned no sweep runs and
\* no agent is demoted.
C38_RunSweepsUntilCancelled ==
    /\ [][/\ Sweep => /\ sched.pc = "start" \/ now = sched.nextTick
                      /\ sched'.nextTick = now + cleanupInterval
          /\ (sched.pc = "waiting" /\ now' # now) => now < sched.nextTick
          /\ (sched'.pc = "returned" /\ sched.pc # "returned") => sched.ctx = "done"
          /\ sched.pc = "returned" =>
                /\ sched' = sched
                /\ \A a \in Rows : ~Demoted(a)]_vars
    /\ (sched.ctx = "done") ~> (sched.pc = "returned")

\* Run has returned and the tick after its return has passed: an agent that
\* is stale since stays ONLINE
C38_Witness ==
    /\ sched.pc = "returned"
    /\ now > sched.nextTick
    /\ \E a \in Rows : agents[a].status = "online" /\ Silence(a) > staleTimeout

\* C39: in every admin listing response Total is the number of agents
\* listed and Online the number of listed agents whose status is online,
\* so Online <= Total, also when an agent was left out because its models
\* could not be read.
C39_CountsMatchListing ==
    admin.pc = "done" =>
        /\ admin.total = Cardinality(DOMAIN admin.out)
        /\ admin.onlineCount =
               Cardinality({a \in DOMAIN admin.out : admin.out[a].row.status = "online"})
        /\ admin.onlineCount <= admin.total

\* C40: the agent's CanServe and the CanServe of package shared give the
\* same answer for every GPU descriptor and every requirement.
C40_CanServeAgree ==
    (probe.called /\ probe.sharedCalled) => probe.result = probe.sharedResult

TypeOK ==
    /\ now \in 0..MaxTime
    /\ DOMAIN agents \subseteq AgentIds
    /\ DOMAIN agent_models = DOMAIN agents
    /\ \A a \in DOMAIN agents :
          /\ agents[a].status \in {"online", "offline"}
          /\ agents[a].last_heartbeat \in 0..MaxTime
          /\ agent_models[a] \subseteq RequestModelNames
====
